---- MODULE Spec2Model ----
(***************************************************************************)
(* Model of the feedback forwarder worker (src/src/index.js).              *)
(*                                                                         *)
(* A JavaScript string is a sequence of one-character strings.  A value    *)
(* that may be undefined is a sequence of length at most one: <<>> is      *)
(* undefined, <<s>> is the string s.  A JSON value that is not a string    *)
(* is a pair <<type, truthy>>: <<"number", FALSE>> is 0, <<"object", TRUE>> *)
(* an object.                                                              *)
(***************************************************************************)
EXTENDS Integers, Sequences, FiniteSets

VARIABLES
  now,      \* what Date.now() returns
  secret,   \* env.HMAC_SECRET
  held,     \* the token the client got from its last GET, with its instant and secret
  pc,       \* "idle", "sending" (fetch awaits resend.emails.send), "done" (response
            \* built), "threw" (an exception left fetch)
  req,      \* the request in hand: method, parsed body, Date.now() and secret it saw
  resp,     \* the response fetch returns
  sent,     \* the calls of resend.emails.send made for the request in hand
  settled,  \* how the send call settled
  log,      \* the console.error lines written for the request in hand
  steps,    \* the stages of fetch the request went through
  input,    \* the argument of escapeHtml
  output    \* the result of escapeHtml

vars == <<now, secret, held, pc, req, resp, sent, settled, log, steps, input, output>>

(***************************************************************************)
(* Strings                                                                 *)
(***************************************************************************)
Digits == <<"0", "1", "2", "3", "4", "5", "6", "7", "8", "9">>

DigitChars == {Digits[i] : i \in 1..10}

DigitVal(c) == (CHOOSE i \in 1..10 : Digits[i] = c) - 1

\* The white space String.prototype.trim and parseInt strip.
WhiteSpace == {" ", "\n", "\t"}

Undefined == <<>>

Str(s) == <<s>>

\* JavaScript's !x: undefined, "", 0, null and false are falsy.
Falsy(x) == x = Undefined \/ x = Str(<<>>) \/ (Len(x) = 2 /\ ~x[2])

\* x.split, x.trim or x.replace of a value that has no such method: a
\* TypeError (x is neither undefined nor a string).
NoStringMethod(x) == Len(x) = 2

\* Number.prototype.toString of a non-negative integer: its decimal digits.
RECURSIVE toString(_)
toString(n) ==
  IF n < 10 THEN <<Digits[n + 1]>>
  ELSE toString(n \div 10) \o <<Digits[(n % 10) + 1]>>

RECURSIVE DropWhiteSpace(_)
DropWhiteSpace(s) ==
  IF s # <<>> /\ Head(s) \in WhiteSpace THEN DropWhiteSpace(Tail(s)) ELSE s

\* The value of the longest prefix of s made of decimal digits, read after acc.
RECURSIVE DigitPrefix(_, _)
DigitPrefix(s, acc) ==
  IF s # <<>> /\ Head(s) \in DigitChars
  THEN DigitPrefix(Tail(s), 10 * acc + DigitVal(Head(s)))
  ELSE acc

NaN == [nan |-> TRUE, val |-> 0]

Num(n) == [nan |-> FALSE, val |-> n]

\* parseInt(s, 10): leading white space is skipped, a sign is read, then the
\* longest run of digits; what follows the digits is ignored; no digit: NaN.
ParseInt(s) ==
  LET t == DropWhiteSpace(s)
      signed == t # <<>> /\ Head(t) \in {"-", "+"}
      u == IF signed THEN Tail(t) ELSE t
  IN  IF u = <<>> \/ Head(u) \notin DigitChars THEN NaN
      ELSE IF signed /\ Head(t) = "-" THEN Num(0 - DigitPrefix(u, 0))
      ELSE Num(DigitPrefix(u, 0))

\* String.prototype.split('.'): the pieces between the separators.
RECURSIVE Split(_)
Split(s) ==
  IF \A i \in 1..Len(s) : s[i] # "." THEN <<s>>
  ELSE LET k == CHOOSE i \in 1..Len(s) : s[i] = "." /\ \A j \in 1..(i - 1) : s[j] # "."
       IN  <<SubSeq(s, 1, k - 1)>> \o Split(SubSeq(s, k + 1, Len(s)))

\* The i-th variable of an array destructuring: undefined past the end.
Element(parts, i) == IF i <= Len(parts) THEN Str(parts[i]) ELSE Undefined

RECURSIVE DropTrailingWhiteSpace(_)
DropTrailingWhiteSpace(s) ==
  IF s # <<>> /\ s[Len(s)] \in WhiteSpace
  THEN DropTrailingWhiteSpace(SubSeq(s, 1, Len(s) - 1))
  ELSE s

\* String.prototype.trim
Trim(s) == DropTrailingWhiteSpace(DropWhiteSpace(s))

\* String.prototype.replace(/c/g, r): every occurrence of the character c.
RECURSIVE ReplaceAll(_, _, _)
ReplaceAll(s, c, r) ==
  IF s = <<>> THEN <<>>
  ELSE (IF Head(s) = c THEN r ELSE <<Head(s)>>) \o ReplaceAll(Tail(s), c, r)

Amp == <<"&", "a", "m", "p", ";">>
Lt == <<"&", "l", "t", ";">>
Gt == <<"&", "g", "t", ";">>
Quot == <<"&", "q", "u", "o", "t", ";">>

\* A plausible slip: the ampersand replaced last, so that the '&' of the
\* entities made for '<', '>' and '"' is escaped again.
escapeHtmlAmpLast(str) ==
  ReplaceAll(ReplaceAll(ReplaceAll(ReplaceAll(str, "<", Lt), ">", Gt), "\"", Quot), "&", Amp)

escapeHtml(str) ==
  ReplaceAll(ReplaceAll(ReplaceAll(ReplaceAll(str, "&", Amp), "<", Lt), ">", Gt), "\"", Quot)

\* .replace(/\n/g, '<br>')
LineBreaks(s) == ReplaceAll(s, "\n", <<"<", "b", "r", ">">>)

(***************************************************************************)
(* Token issuance and verification                                         *)
(***************************************************************************)
TOKEN_EXPIRY_MS == 5 * 60 * 1000

\* The values env.HMAC_SECRET takes.
Secrets == {"alpha", "beta"}

KeyChar(key) == IF key = "alpha" THEN "a" ELSE "b"

Base64Char(c) ==
  IF c \in DigitChars THEN <<"A", "B", "C", "D", "E", "F", "G", "H", "I", "J">>[DigitVal(c) + 1]
  ELSE IF c = "x" THEN "X"
  ELSE IF c = " " THEN "+"
  ELSE "/"

\* HMAC-SHA256 of message under key, base64-encoded.  The MAC is taken as
\* ideal: distinct (message, key) pairs give distinct strings of the base64
\* alphabet, which has no '.'.
generateHmac(message, key) ==
  <<KeyChar(key)>> \o [i \in 1..Len(message) |-> Base64Char(message[i])]

\* A plausible slip: only the length of the signature is compared.
verifyHmacLengthOnly(message, signature, key) ==
  Len(signature) = Len(generateHmac(message, key))

verifyHmac(message, signature, key) ==
  LET expectedSignature == generateHmac(message, key)
  IN  signature = expectedSignature

\* `${timestamp}.${signature}` of the GET branch, for Date.now() = nowMs.
IssueToken(nowMs, key) ==
  LET timestamp == toString(nowMs)
      signature == generateHmac(timestamp, key)
  IN  timestamp \o <<".">> \o signature

\* Date.now() - parseInt(timestamp, 10): NaN when the timestamp is NaN.
TokenAge(nowMs, parsed) == IF parsed.nan THEN NaN ELSE Num(nowMs - parsed.val)

\* A plausible slip: >= in place of >.
TokenExpiredAtBoundary(tokenAge) == tokenAge.nan \/ tokenAge.val >= TOKEN_EXPIRY_MS

\* isNaN(tokenAge) || tokenAge > TOKEN_EXPIRY_MS
TokenExpired(tokenAge) == tokenAge.nan \/ tokenAge.val > TOKEN_EXPIRY_MS

\* A plausible slip: the signature verified before the age of the token.
TokenErrorSignatureFirst(checktoken, nowMs, key) ==
  IF Falsy(checktoken) THEN "Token is required"
  ELSE LET parts == Split(checktoken[1])
           timestamp == Element(parts, 1)
           signature == Element(parts, 2)
       IN  IF Falsy(timestamp) \/ Falsy(signature) THEN "Invalid token format"
           ELSE IF ~verifyHmac(timestamp[1], signature[1], key) THEN "Invalid token signature"
           ELSE IF TokenExpired(TokenAge(nowMs, ParseInt(timestamp[1]))) THEN "Token expired"
           ELSE "ok"

\* A plausible slip: only the timestamp part is required to be non-empty.
TokenErrorTimestampOnly(checktoken, nowMs, key) ==
  IF Falsy(checktoken) THEN "Token is required"
  ELSE LET parts == Split(checktoken[1])
           timestamp == Element(parts, 1)
           signature == Element(parts, 2)
       IN  IF Falsy(timestamp) THEN "Invalid token format"
           ELSE IF TokenExpired(TokenAge(nowMs, ParseInt(timestamp[1]))) THEN "Token expired"
           ELSE IF signature = Undefined \/ ~verifyHmac(timestamp[1], signature[1], key)
                THEN "Invalid token signature"
           ELSE "ok"

\* The token checks of a POST, in the order of the code: the error of the
\* 401 response, or "ok" when the token passes.
TokenError(checktoken, nowMs, key) ==
  IF Falsy(checktoken) THEN "Token is required"
  ELSE LET parts == Split(checktoken[1])
           timestamp == Element(parts, 1)
           signature == Element(parts, 2)
       IN  IF Falsy(timestamp) \/ Falsy(signature) THEN "Invalid token format"
           ELSE IF TokenExpired(TokenAge(nowMs, ParseInt(timestamp[1]))) THEN "Token expired"
           ELSE IF ~verifyHmac(timestamp[1], signature[1], key) THEN "Invalid token signature"
           ELSE "ok"

\* !x || x.trim().length === 0
Blank(x) == Falsy(x) \/ Len(Trim(x[1])) = 0

\* A plausible slip: the email checked before the message.
FieldErrorEmailFirst(message, email) ==
  IF Blank(email) THEN "Email is required"
  ELSE IF Blank(message) THEN "Message is required"
  ELSE "ok"

\* The field checks of a POST: the error of the 400 response, or "ok".
FieldError(message, email) ==
  IF Blank(message) THEN "Message is required"
  ELSE IF Blank(email) THEN "Email is required"
  ELSE "ok"

(***************************************************************************)
(* Requests and responses                                                  *)
(***************************************************************************)
\* headers.get of a header the response does not set.
Absent == "(absent)"

NoBody == [kind |-> "empty", error |-> "", token |-> <<>>]

ErrorBody(error) == [kind |-> "error", error |-> error, token |-> <<>>]

\* new Response(null, {headers: {...}}) of the OPTIONS branch.
PreflightResponse ==
  [status |-> 200, contentType |-> Absent, allowOrigin |-> "*",
   allowMethods |-> "GET, POST, OPTIONS", allowHeaders |-> "Content-Type",
   body |-> NoBody]

\* new Response(JSON.stringify(body), {status, headers}) with Content-Type
\* application/json and, when cors, Access-Control-Allow-Origin: *.
JsonResponse(status, body, cors) ==
  [status |-> status, contentType |-> "application/json",
   allowOrigin |-> IF cors THEN "*" ELSE Absent,
   allowMethods |-> Absent, allowHeaders |-> Absent, body |-> body]

TokenResponse(token) ==
  JsonResponse(200, [kind |-> "token", error |-> "", token |-> token], TRUE)

SuccessResponse ==
  JsonResponse(200, [kind |-> "success", error |-> "", token |-> <<>>], TRUE)

MethodNotAllowedResponse == JsonResponse(405, ErrorBody("Method not allowed"), FALSE)

InvalidJsonResponse == JsonResponse(400, ErrorBody("Invalid JSON"), FALSE)

UnauthorizedResponse(error) == JsonResponse(401, ErrorBody(error), TRUE)

FieldErrorResponse(error) == JsonResponse(400, ErrorBody(error), FALSE)

\* A plausible slip: the provider's error returned to the caller.
SendFailedResponseWithDetail(detail) == JsonResponse(500, ErrorBody(detail), TRUE)

\* The 500 of a send that reports an error; the detail goes to the log only.
SendFailedResponse(detail) == JsonResponse(500, ErrorBody("Failed to send email"), TRUE)

\* The 500 of the catch block.
InternalErrorResponse(detail) == JsonResponse(500, ErrorBody("Internal server error"), TRUE)

NoFields ==
  [name |-> Undefined, email |-> Undefined, message |-> Undefined,
   appVersion |-> Undefined, checktoken |-> Undefined]

NoRequest ==
  [method |-> "", json |-> FALSE, shape |-> "none", body |-> NoFields, at |-> 0, key |-> ""]

NoResponse ==
  [status |-> 0, contentType |-> Absent, allowOrigin |-> Absent,
   allowMethods |-> Absent, allowHeaders |-> Absent, body |-> NoBody]

NoOutcome == [kind |-> "none", detail |-> ""]

NoToken == [token |-> <<>>, at |-> 0, key |-> ""]

\* A request without a body, received at Date.now() = now under env.HMAC_SECRET = secret.
Request(method) ==
  [method |-> method, json |-> FALSE, shape |-> "none", body |-> NoFields,
   at |-> now, key |-> secret]

\* name || 'Anonymous', appVersion || 'Unknown'
OrDefault(x, default) == IF Falsy(x) THEN default ELSE x[1]

Anonymous == <<"A", "n", "o", "n", "y", "m", "o", "u", "s">>

Unknown == <<"U", "n", "k", "n", "o", "w", "n">>

\* The interpolated parts of the emailHtml template, in the order of the template.
EmailHtml(body) ==
  [version |-> escapeHtml(OrDefault(body.appVersion, Unknown)),
   senderName |-> escapeHtml(OrDefault(body.name, Anonymous)),
   email |-> escapeHtml(body.email[1]),
   message |-> LineBreaks(escapeHtml(body.message[1]))]

\* A plausible slip: the reply address taken from the wrong field.
SendArgsReplyToName(body) ==
  [to |-> "TO_EMAIL", replyTo |-> body.name, from |-> "FROM_EMAIL",
   subject |-> "Feedback from Asset Hoard", html |-> EmailHtml(body)]

\* The argument of resend.emails.send.
SendArgs(body) ==
  [to |-> "TO_EMAIL", replyTo |-> body.email, from |-> "FROM_EMAIL",
   subject |-> "Feedback from Asset Hoard", html |-> EmailHtml(body)]

(***************************************************************************)
(* Inputs                                                                  *)
(***************************************************************************)
\* The readings of Date.now(): both sides of the expiry window of a token
\* issued at 0 or at 1.
Instants == {0, 1, TOKEN_EXPIRY_MS + 1, TOKEN_EXPIRY_MS + 2}

Methods == {"OPTIONS", "GET", "POST", "PUT", "DELETE", "HEAD", "PATCH"}

RECURSIVE Join(_)
Join(parts) ==
  IF Len(parts) = 0 THEN <<>>
  ELSE IF Len(parts) = 1 THEN parts[1]
  ELSE parts[1] \o <<".">> \o Join(Tail(parts))

FakeSignature == <<"z", "z">>

CraftedTimestamps == {<<>>, <<"1">>, <<"1", "x">>, <<"x">>}

CraftedSignatures(timestamp) ==
  {<<>>, FakeSignature} \cup {generateHmac(timestamp, k) : k \in Secrets}

ExtraParts == {<<>>, <<(<<"x">>)>>, <<(<<>>)>>}

\* Tokens a client writes itself: one part, two parts, three parts, with
\* empty parts, unparseable timestamps, and right and wrong signatures.
CraftedTokens ==
  {Join(<<t>>) : t \in CraftedTimestamps}
    \cup {Join(<<p[1], p[2]>> \o p[3]) :
            p \in {q \in CraftedTimestamps \X (UNION {CraftedSignatures(t) : t \in CraftedTimestamps}) \X ExtraParts :
                     q[2] \in CraftedSignatures(q[1])}}

\* The token the client got from its last GET, as it is and with a third part.
HeldTokens ==
  IF held = NoToken THEN {} ELSE {held.token, held.token \o <<".", "x">>}

Checktokens == {Undefined} \cup {Str(t) : t \in CraftedTokens \cup HeldTokens}

Messages == {Undefined, Str(<<" ", "\n">>), Str(<<"h", "<", "\n", "&">>)}

Emails == {Undefined, Str(<<>>), Str(<<" ">>), Str(<<"a", "@", "b">>)}

Names == {Undefined, Str(<<"\"", "A", "\"">>)}

Versions == {Undefined, Str(<<"1", ">">>)}

Bodies ==
  {[name |-> n, email |-> e, message |-> m, appVersion |-> v, checktoken |-> c] :
     n \in Names, e \in Emails, m \in Messages, v \in Versions, c \in Checktokens}

\* JSON values that are not strings: a non-zero number, 0, null, an object.
NonStrings == {<<"number", TRUE>>, <<"number", FALSE>>, <<"null", FALSE>>, <<"object", TRUE>>}

GoodEmail == Str(<<"a", "@", "b">>)

GoodMessage == Str(<<"h", "<", "\n", "&">>)

\* Bodies with one field that is not a string.
IllTypedBodies ==
  {[name |-> Undefined, email |-> GoodEmail, message |-> m, appVersion |-> Undefined,
    checktoken |-> c] : m \in Messages, c \in NonStrings}
    \cup {[name |-> Undefined, email |-> e, message |-> m, appVersion |-> Undefined,
            checktoken |-> c] : e \in {Undefined, GoodEmail}, m \in NonStrings, c \in Checktokens}
    \cup {[name |-> Undefined, email |-> e, message |-> GoodMessage, appVersion |-> Undefined,
            checktoken |-> c] : e \in NonStrings, c \in Checktokens}
    \cup {[name |-> n, email |-> GoodEmail, message |-> GoodMessage, appVersion |-> Undefined,
            checktoken |-> c] : n \in NonStrings, c \in Checktokens}
    \cup {[name |-> Undefined, email |-> GoodEmail, message |-> GoodMessage, appVersion |-> v,
            checktoken |-> c] : v \in NonStrings, c \in Checktokens}

\* What request.json() resolves with: an object, null, or a value without
\* the fields (a number, a string, a boolean, an array).
ParsedJson ==
  {[shape |-> "object", body |-> b] : b \in Bodies \cup IllTypedBodies}
    \cup {[shape |-> "null", body |-> NoFields], [shape |-> "other", body |-> NoFields]}

\* What resend.emails.send does: resolves with {error: null}, resolves with
\* {error}, or rejects.
Outcomes ==
  {[kind |-> "ok", detail |-> ""],
   [kind |-> "error", detail |-> "API Error"],
   [kind |-> "throw", detail |-> "Network error"]}

(***************************************************************************)
(* The handler                                                             *)
(***************************************************************************)
\* A plausible slip: the 405 guard lost, every other method handled as a POST.
BranchWithoutGuard(method) ==
  IF method = "OPTIONS" THEN "preflight"
  ELSE IF method = "GET" THEN "issue"
  ELSE "submit"

\* The branch of fetch a request method takes.
Branch(method) ==
  IF method = "OPTIONS" THEN "preflight"
  ELSE IF method = "GET" THEN "issue"
  ELSE IF method # "POST" THEN "notAllowed"
  ELSE "submit"

Init ==
  /\ now = 0
  /\ secret \in Secrets
  /\ held = NoToken
  /\ pc = "idle"
  /\ req = NoRequest
  /\ resp = NoResponse
  /\ sent = <<>>
  /\ settled = NoOutcome
  /\ log = <<>>
  /\ steps = {}
  /\ input = <<>>
  /\ output = <<>>

\* Time passes between two requests.
Tick ==
  /\ pc = "idle"
  /\ \E t \in Instants : t > now /\ now' = t
  /\ UNCHANGED <<secret, held, pc, req, resp, sent, settled, log, steps, input, output>>

\* Date.now() is not monotonic: the clock is set back, or the next request
\* is served by a machine whose clock is behind.
ClockSetBack ==
  /\ pc = "idle"
  /\ \E t \in Instants : t < now /\ now' = t
  /\ UNCHANGED <<secret, held, pc, req, resp, sent, settled, log, steps, input, output>>

\* The worker is deployed with another HMAC_SECRET.
RotateSecret ==
  /\ pc = "idle"
  /\ \E k \in Secrets : k # secret /\ secret' = k
  /\ UNCHANGED <<now, held, pc, req, resp, sent, settled, log, steps, input, output>>

\* fetch, OPTIONS branch.
Options ==
  /\ pc = "idle"
  /\ \E m \in Methods :
       /\ Branch(m) = "preflight"
       /\ req' = Request(m)
  /\ resp' = PreflightResponse
  /\ pc' = "done"
  /\ UNCHANGED <<now, secret, held, sent, settled, log, steps, input, output>>

\* fetch, GET branch: a token for Date.now() under env.HMAC_SECRET.
Get ==
  /\ pc = "idle"
  /\ \E m \in Methods :
       /\ Branch(m) = "issue"
       /\ req' = Request(m)
  /\ resp' = TokenResponse(IssueToken(now, secret))
  /\ steps' = {"sign"}
  /\ pc' = "done"
  /\ UNCHANGED <<now, secret, held, sent, settled, log, input, output>>

\* fetch, any method but OPTIONS, GET and POST.
MethodNotAllowed ==
  /\ pc = "idle"
  /\ \E m \in Methods :
       /\ Branch(m) = "notAllowed"
       /\ req' = Request(m)
  /\ resp' = MethodNotAllowedResponse
  /\ pc' = "done"
  /\ UNCHANGED <<now, secret, held, sent, settled, log, steps, input, output>>

\* fetch, POST branch, request.json() rejects.
PostInvalidJson ==
  /\ pc = "idle"
  /\ \E m \in Methods :
       /\ Branch(m) = "submit"
       /\ req' = Request(m)
  /\ resp' = InvalidJsonResponse
  /\ steps' = {"json"}
  /\ pc' = "done"
  /\ UNCHANGED <<now, secret, held, sent, settled, log, input, output>>

\* The statement of the POST branch that throws a TypeError, outside the try
\* block, or "none": the destructuring of null, checktoken.split,
\* message.trim, email.trim, and str.replace in escapeHtml(version) and
\* escapeHtml(senderName).
Thrown(shape, body, nowMs, key) ==
  IF shape = "null" THEN "destructure"
  ELSE IF ~Falsy(body.checktoken) /\ NoStringMethod(body.checktoken) THEN "split"
  ELSE IF TokenError(body.checktoken, nowMs, key) # "ok" THEN "none"
  ELSE IF ~Falsy(body.message) /\ NoStringMethod(body.message) THEN "trim"
  ELSE IF Blank(body.message) THEN "none"
  ELSE IF ~Falsy(body.email) /\ NoStringMethod(body.email) THEN "trim"
  ELSE IF Blank(body.email) THEN "none"
  ELSE IF \/ ~Falsy(body.appVersion) /\ NoStringMethod(body.appVersion)
          \/ ~Falsy(body.name) /\ NoStringMethod(body.name)
       THEN "replace"
  ELSE "none"

\* fetch, POST branch, from request.json() to the response of a rejected
\* submission, to the call of resend.emails.send, where the handler waits,
\* or to a TypeError that nothing catches.
Post ==
  /\ pc = "idle"
  /\ \E m \in Methods, parsed \in ParsedJson :
       LET body == parsed.body
           thrown == Thrown(parsed.shape, body, now, secret)
           tokenError == TokenError(body.checktoken, now, secret)
           fieldError == FieldError(body.message, body.email)
       IN  /\ Branch(m) = "submit"
           /\ req' = [method |-> m, json |-> TRUE, shape |-> parsed.shape, body |-> body,
                      at |-> now, key |-> secret]
           /\ IF thrown # "none"
              THEN /\ resp' = resp
                   /\ steps' = IF thrown = "destructure" THEN {"json"}
                               ELSE IF thrown = "split" THEN {"json", "token"}
                               ELSE {"json", "token", "fields"}
                   /\ pc' = "threw"
                   /\ sent' = sent
              ELSE IF tokenError # "ok"
              THEN /\ resp' = UnauthorizedResponse(tokenError)
                   /\ steps' = {"json", "token"}
                   /\ pc' = "done"
                   /\ sent' = sent
              ELSE IF fieldError # "ok"
              THEN /\ resp' = FieldErrorResponse(fieldError)
                   /\ steps' = {"json", "token", "fields"}
                   /\ pc' = "done"
                   /\ sent' = sent
              ELSE /\ resp' = resp
                   /\ steps' = {"json", "token", "fields", "send"}
                   /\ pc' = "sending"
                   /\ sent' = Append(sent, SendArgs(body))
  /\ UNCHANGED <<now, secret, held, settled, log, input, output>>

\* The call of resend.emails.send settles: the response of the try block or
\* of the catch block.
SendSettles ==
  /\ pc = "sending"
  /\ \E o \in Outcomes :
       /\ settled' = o
       /\ IF o.kind = "ok"
          THEN resp' = SuccessResponse /\ log' = log
          ELSE IF o.kind = "error"
          THEN /\ resp' = SendFailedResponse(o.detail)
               /\ log' = Append(log, <<"Resend error:", o.detail>>)
          ELSE /\ resp' = InternalErrorResponse(o.detail)
               /\ log' = Append(log, <<"Worker error:", o.detail>>)
  /\ pc' = "done"
  /\ UNCHANGED <<now, secret, held, req, sent, steps, input, output>>

\* The response reaches the client, which keeps the token of a GET; nothing
\* of the request stays in the worker.
Return ==
  /\ pc = "done"
  /\ held' = IF resp.body.kind = "token"
             THEN [token |-> resp.body.token, at |-> req.at, key |-> req.key]
             ELSE held
  /\ pc' = "idle"
  /\ req' = NoRequest
  /\ resp' = NoResponse
  /\ sent' = <<>>
  /\ settled' = NoOutcome
  /\ log' = <<>>
  /\ steps' = {}
  /\ UNCHANGED <<now, secret, input, output>>

\* The promise fetch returned rejects: the handler built no response, and
\* nothing of the request stays in the worker.
Rejects ==
  /\ pc = "threw"
  /\ pc' = "idle"
  /\ req' = NoRequest
  /\ steps' = {}
  /\ UNCHANGED <<now, secret, held, resp, sent, settled, log, input, output>>

Next ==
  \/ Tick
  \/ ClockSetBack
  \/ RotateSecret
  \/ Options
  \/ Get
  \/ MethodNotAllowed
  \/ PostInvalidJson
  \/ Post
  \/ SendSettles
  \/ Return
  \/ Rejects

Spec == Init /\ [][Next]_vars

(***************************************************************************)
(* Properties of the token scheme                                          *)
(***************************************************************************)
\* The request in hand is a POST whose body parsed to the body of the
\* interface: an object whose fields are strings or absent.
Submitted ==
  /\ req.method = "POST"
  /\ req.json
  /\ req.shape = "object"
  /\ \A f \in DOMAIN req.body : Len(req.body[f]) <= 1

Answered == pc = "done"

\* The request in hand passed the token checks: it was not answered 401.
Passed == pc \in {"sending", "done"} /\ resp.status # 401

Rejected(status, error) ==
  /\ Answered
  /\ resp.status = status
  /\ resp.body = [kind |-> "error", error |-> error, token |-> <<>>]

\* The checktoken of the request in hand is a non-empty string.
Presented == Submitted /\ req.body.checktoken \notin {Undefined, Str(<<>>)}

PresentedParts == Split(req.body.checktoken[1])

\* The timestamp and the signature the handler reads: the first two parts.
FirstTwoNonEmpty ==
  /\ Len(PresentedParts) >= 2
  /\ PresentedParts[1] # <<>>
  /\ PresentedParts[2] # <<>>

ExactlyTwoNonEmpty == FirstTwoNonEmpty /\ Len(PresentedParts) = 2

PresentedTimestamp == ParseInt(PresentedParts[1])

PresentedAge == req.at - PresentedTimestamp.val

SignatureIsMac == PresentedParts[2] = generateHmac(PresentedParts[1], req.key)

\* The token of the request in hand is the one the last GET returned.
PresentsHeld == Presented /\ held # NoToken /\ req.body.checktoken = Str(held.token)

\* C1: a token returned by a GET at T and presented in a POST at T+d under
\* the same secret, 0 <= d <= 5 minutes (d = 300000 ms included), passes the
\* token verification: the POST is never answered 401.
RoundTripPasses ==
  (PresentsHeld /\ req.key = held.key /\ req.at - held.at \in 0..TOKEN_EXPIRY_MS)
    => Passed

\* A token issued at T is accepted at exactly T + 300000 ms.
RoundTripAtBoundary ==
  /\ PresentsHeld
  /\ req.key = held.key
  /\ req.at - held.at = TOKEN_EXPIRY_MS
  /\ Answered
  /\ resp.status = 200

WrongSignatureRejected ==
  /\ (Presented /\ FirstTwoNonEmpty /\ ~PresentedTimestamp.nan
        /\ PresentedAge \in 0..TOKEN_EXPIRY_MS /\ ~SignatureIsMac)
       => Rejected(401, "Invalid token signature")
  /\ (PresentsHeld /\ req.key # held.key) => (Answered /\ resp.status = 401)

\* A token issued under one secret and presented within the window under
\* another is answered "Invalid token signature".
RotatedSecretRejected ==
  /\ PresentsHeld
  /\ req.key # held.key
  /\ req.at - held.at \in 0..TOKEN_EXPIRY_MS
  /\ Rejected(401, "Invalid token signature")

(***************************************************************************)
(* Properties of the handler                                               *)
(***************************************************************************)
\* The token of the request in hand meets every check of the verifier.
TokenValid ==
  /\ Presented
  /\ FirstTwoNonEmpty
  /\ ~PresentedTimestamp.nan
  /\ PresentedAge <= TOKEN_EXPIRY_MS
  /\ SignatureIsMac

\* A field that is missing or empty after trimming.
MissingOrBlank(x) == x = Undefined \/ Trim(x[1]) = <<>>

\* C5: within one POST the email collaborator's send is invoked exactly once,
\* with replyTo the submitted email, if and only if the token is valid and
\* message and email are non-blank; it is never invoked for a request
\* answered 400, 401 or 405, for GET or OPTIONS, nor a second time after it
\* reports an error or throws.
SendInvokedOnceIffValid ==
  /\ Len(sent) <= 1
  /\ req.method # "POST" => sent = <<>>
  /\ (Answered /\ resp.status \in {400, 401, 405}) => sent = <<>>
  /\ Submitted =>
       (Len(sent) = 1 <=> (/\ TokenValid
                           /\ ~MissingOrBlank(req.body.message)
                           /\ ~MissingOrBlank(req.body.email)))
  /\ sent # <<>> => sent[1].replyTo = req.body.email
  /\ (Answered /\ settled.kind \in {"error", "throw"}) => Len(sent) = 1

\* A send that threw was invoked once, with the submitted email as replyTo.
SendThrewOnce ==
  /\ Answered
  /\ settled.kind = "throw"
  /\ Len(sent) = 1
  /\ sent[1].replyTo = Str(<<"a", "@", "b">>)

\* C6: the token is verified before the fields: a POST whose token is
\* missing, malformed, expired or wrongly signed is answered 401 whatever
\* message and email are; with a valid token a missing or blank message gives
\* 400 "Message is required", otherwise a missing or blank email gives 400
\* "Email is required"; missing name and appVersion never cause a rejection.
TokenBeforeFields ==
  Submitted =>
    /\ ~TokenValid => (Answered /\ resp.status = 401)
    /\ (TokenValid /\ MissingOrBlank(req.body.message))
         => Rejected(400, "Message is required")
    /\ (TokenValid /\ ~MissingOrBlank(req.body.message) /\ MissingOrBlank(req.body.email))
         => Rejected(400, "Email is required")
    /\ (TokenValid /\ ~MissingOrBlank(req.body.message) /\ ~MissingOrBlank(req.body.email))
         => resp.status \notin {400, 401}

\* A valid token with a blank message and a blank email, no name and no
\* appVersion: the message is the field reported.
BlankMessageReportedFirst ==
  /\ Submitted
  /\ TokenValid
  /\ req.body.message = Str(<<" ", "\n">>)
  /\ req.body.email = Str(<<" ">>)
  /\ req.body.name = Undefined
  /\ req.body.appVersion = Undefined
  /\ Rejected(400, "Message is required")

\* C7: every response other than the 405 carries
\* Access-Control-Allow-Origin: *.
CorsOnAllBut405 ==
  (Answered /\ resp.status # 405) => resp.allowOrigin = "*"

\* C8: for a POST that passed the token and field checks the response is
\* decided by the outcome of the one send: no error gives 200 {success: true},
\* a reported error 500 "Failed to send email", an exception 500 "Internal
\* server error"; the body of a failure is one of these two strings and never
\* holds the provider's detail, which goes to the log.
SendOutcomeDecidesResponse ==
  (Answered /\ "send" \in steps) =>
    /\ Len(sent) = 1
    /\ settled.kind = "ok" =>
         /\ resp.status = 200
         /\ resp.body = [kind |-> "success", error |-> "", token |-> <<>>]
         /\ log = <<>>
    /\ settled.kind = "error" =>
         /\ Rejected(500, "Failed to send email")
         /\ log = <<(<<"Resend error:", settled.detail>>)>>
    /\ settled.kind = "throw" =>
         /\ Rejected(500, "Internal server error")
         /\ log = <<(<<"Worker error:", settled.detail>>)>>
    /\ settled.kind \in {"ok", "error", "throw"}
    /\ settled.kind # "ok" => resp.body.error # settled.detail

\* The provider reported an error and the caller got the generic 500.
ProviderErrorHidden ==
  /\ Answered
  /\ settled = [kind |-> "error", detail |-> "API Error"]
  /\ Rejected(500, "Failed to send email")

AllDigits(s) == s # <<>> /\ \A i \in 1..Len(s) : s[i] \in DigitChars

MaxLen == 3

EscapeAlphabet == {"&", "<", ">", "\"", "a", ";"}

EscapeInputs == UNION {[1..n -> EscapeAlphabet] : n \in 0..MaxLen}

InitEscape ==
  /\ now = 0
  /\ secret = "alpha"
  /\ held = NoToken
  /\ pc = "escape"
  /\ req = NoRequest
  /\ resp = NoResponse
  /\ sent = <<>>
  /\ settled = NoOutcome
  /\ log = <<>>
  /\ steps = {}
  /\ input \in EscapeInputs
  /\ output = <<>>

Escape ==
  /\ pc = "escape"
  /\ output' = escapeHtml(input)
  /\ pc' = "escaped"
  /\ UNCHANGED <<now, secret, held, req, resp, sent, settled, log, steps, input>>

NextEscape == Escape

SpecEscape == InitEscape /\ [][NextEscape]_vars

\* The entity of a character, or the character itself.
Entity(c) ==
  IF c = "&" THEN Amp
  ELSE IF c = "<" THEN Lt
  ELSE IF c = ">" THEN Gt
  ELSE IF c = "\"" THEN Quot
  ELSE <<c>>

RECURSIVE EachCharacterReplaced(_)
EachCharacterReplaced(s) ==
  IF s = <<>> THEN <<>> ELSE Entity(Head(s)) \o EachCharacterReplaced(Tail(s))

StartsEntity(s, i) ==
  \E e \in {Amp, Lt, Gt, Quot} :
    i + Len(e) - 1 <= Len(s) /\ SubSeq(s, i, i + Len(e) - 1) = e

\* C10: escapeHtml(s) is s with each '&', '<', '>' and '"' replaced by its
\* entity, the other characters unchanged and in order; the output has no
\* literal '<', '>' or '"', and every '&' of the output starts one of the
\* four entities.
EscapeHtmlReplacesEach ==
  pc = "escaped" =>
    /\ output = EachCharacterReplaced(input)
    /\ \A i \in 1..Len(output) : output[i] \notin {"<", ">", "\""}
    /\ \A i \in 1..Len(output) : output[i] = "&" => StartsEntity(output, i)

\* The input <"& is escaped to &lt;&quot;&amp;.
EscapedAllFour ==
  /\ pc = "escaped"
  /\ input = <<"<", "\"", "&">>
  /\ output = Lt \o Quot \o Amp

(***************************************************************************)
(* Totality of the POST path                                               *)
(***************************************************************************)
\* C11: every POST whose body parses as JSON (JSON null, a value that is not
\* an object, a token, message or email that is not a string included) is
\* answered 200, 400, 401 or 500; no exception leaves the handler.
PostAlwaysAnswered ==
  (req.method = "POST" /\ req.json) =>
    /\ pc # "threw"
    /\ Answered => resp.status \in {200, 400, 401, 500}

====
